---- MODULE Spec2Model ----
(***************************************************************************)
(* Model of src/src/lib/niftyAnalysis.ts: the indicator engine             *)
(* (addIndicators) and the analysis summarizer (analyzeNifty), driven by a *)
(* client that holds one candle sequence and calls the two functions.      *)
(*                                                                         *)
(* Numbers.  The code works on IEEE doubles; the model works on exact      *)
(* rationals.  A raw price (open, high, low, close) is an integer count of *)
(* 1/Unit price units, Unit = 10000, so that inputs carry two more decimals *)
(* than round() keeps.  A value that went through round(value, 2) is an    *)
(* integer count of 1/Factor (hundredths).  An unrounded intermediate is a *)
(* pair numerator/denominator.  Floating-point representation error (a     *)
(* product such as 1.005 * 100 landing just below the tie) is outside the  *)
(* model.                                                                  *)
(***************************************************************************)
EXTENDS Integers, Sequences, FiniteSets, TLC

VARIABLES
    candles,    \* the caller-owned candle sequence handed to both functions
    enriched,   \* what addIndicators(candles) returned, once called
    indicated,  \* TRUE once addIndicators(candles) has returned
    outcome,    \* "pending", "returned" or "threw": analyzeNifty(candles)
    analysis,   \* the NiftyAnalysis record analyzeNifty returned
    thrown      \* the message of the Error analyzeNifty threw

vars == <<candles, enriched, indicated, outcome, analysis, thrown>>

----------------------------------------------------------------------------
\* Values: number | undefined | null

Num(n) == [kind |-> "number", v |-> n]

Undefined == [kind |-> "undefined", v |-> 0]

Null == [kind |-> "null", v |-> 0]

IsNum(x) == x.kind = "number"

\* x without the ?? null
orNull_kept(x) == x

\* x ?? null
orNull(x) == IF x.kind = "number" THEN x ELSE Null

\* truthiness of number | null: a number is truthy unless it is 0
truthy(x) == x.kind = "number" /\ x.v # 0

----------------------------------------------------------------------------
\* Program constants

Factor == 100

Unit == 100 * Factor

SMA_SHORT == 10

SMA_MID == 20

SMA_LONG == 50

RSI_PERIOD == 14

RECENT_WINDOW == 15

MOMENTUM_BACK == 6

RSI_HIGH == 68

RSI_LOW == 32

----------------------------------------------------------------------------
\* Arithmetic helpers

Max(a, b) == IF a >= b THEN a ELSE b

Min(a, b) == IF a <= b THEN a ELSE b

Abs(a) == IF a < 0 THEN -a ELSE a

\* rounding to the nearest integer with a tie going away from zero
MathRound_halfAway(num, den) ==
    LET n == IF den > 0 THEN num ELSE -num
        d == Abs(den)
    IN  IF n >= 0 THEN (2 * n + d) \div (2 * d)
        ELSE -((2 * (-n) + d) \div (2 * d))

\* Math.round(num/den): the nearest integer, a tie going up (toward +infinity)
MathRound(num, den) ==
    IF den > 0 THEN (2 * num + den) \div (2 * den)
    ELSE (2 * (-num) + (-den)) \div (2 * (-den))

\* round with Math.floor in the place of Math.round
round_floor(num, den) == (num * Factor) \div den

\* round(value, 2) for value = num/den: Math.round(value * factor) / factor,
\* returned as the count of 1/Factor
round(num, den) == MathRound(num * Factor, den)

\* Array.prototype.slice(start, end) on a 1-based sequence, 0-based arguments
slice(arr, start, end) ==
    LET n == Len(arr)
        s == IF start < 0 THEN Max(n + start, 0) ELSE Min(start, n)
        e == IF end < 0 THEN Max(n + end, 0) ELSE Min(end, n)
    IN  SubSeq(arr, s + 1, e)

\* the sum of values[lo..hi]; the numbers are exact, so the order of the
\* additions does not matter, and the range is halved to keep the evaluation
\* shallow
RECURSIVE sumRange(_, _, _)
sumRange(values, lo, hi) ==
    IF lo > hi THEN 0
    ELSE IF lo = hi THEN values[lo]
    ELSE LET mid == (lo + hi) \div 2
         IN  sumRange(values, lo, mid) + sumRange(values, mid + 1, hi)

\* values.reduce((acc, value) => acc + value, 0)
reduceSum(values) == sumRange(values, 1, Len(values))

----------------------------------------------------------------------------
\* addIndicators

\* the window shifted one candle ahead
windowSlice_ahead(closes, index, period) ==
    slice(closes, Max(0, index - period + 2), index + 2)

windowSlice(closes, index, period) ==
    slice(closes, Max(0, index - period + 1), index + 1)

\* computeSMA without the warm-up guard: sum / period over what the window has
computeSMA_noGuard(closes, index, period) ==
    Num(round(reduceSum(windowSlice(closes, index, period)), period * Unit))

\* computeSMA with the guard off by one: a value one candle too late
computeSMA_lateGuard(closes, index, period) ==
    IF index < period THEN Undefined
    ELSE Num(round(reduceSum(windowSlice(closes, index, period)), period * Unit))

computeSMA(closes, index, period) ==
    IF index + 1 < period THEN Undefined
    ELSE LET values == windowSlice(closes, index, period)
             sum == reduceSum(values)
         IN  Num(round(sum, period * Unit))

\* computeRSI with the two zero tests in the other order
computeRSI_gainFirst(gains, losses, index, period) ==
    IF index < period THEN Undefined
    ELSE LET gainSum == reduceSum(slice(gains, index - period + 1, index + 1))
             lossSum == reduceSum(slice(losses, index - period + 1, index + 1))
         IN  IF gainSum = 0 THEN Num(0)
             ELSE IF lossSum = 0 THEN Num(100 * Factor)
             ELSE Num(round(100 * (lossSum + gainSum) - 100 * lossSum,
                            lossSum + gainSum))

computeRSI(gains, losses, index, period) ==
    IF index < period THEN Undefined
    ELSE LET recentGains == slice(gains, index - period + 1, index + 1)
             recentLosses == slice(losses, index - period + 1, index + 1)
             gainSum == reduceSum(recentGains)
             lossSum == reduceSum(recentLosses)
             \* averageGain = gainSum / period, averageLoss = lossSum / period,
             \* rs = gainSum / lossSum, 1 + rs = (lossSum + gainSum) / lossSum,
             \* 100 / (1 + rs) = 100 * lossSum / (lossSum + gainSum)
         IN  IF lossSum = 0 THEN Num(100 * Factor)
             ELSE IF gainSum = 0 THEN Num(0)
             ELSE Num(round(100 * (lossSum + gainSum) - 100 * lossSum,
                            lossSum + gainSum))

\* the object literal without the optional field of the candle
point_noVolume(candle, closes, gains, losses, index) ==
    [date   |-> candle.date,
     open   |-> candle.open,
     high   |-> candle.high,
     low    |-> candle.low,
     close  |-> candle.close,
     volume |-> Undefined,
     sma10  |-> computeSMA(closes, index, SMA_SHORT),
     sma20  |-> computeSMA(closes, index, SMA_MID),
     sma50  |-> computeSMA(closes, index, SMA_LONG),
     rsi14  |-> computeRSI(gains, losses, index, RSI_PERIOD)]

\* the object literal { ...candle, sma10, sma20, sma50, rsi14 }
point(candle, closes, gains, losses, index) ==
    [date   |-> candle.date,
     open   |-> candle.open,
     high   |-> candle.high,
     low    |-> candle.low,
     close  |-> candle.close,
     volume |-> candle.volume,
     sma10  |-> computeSMA(closes, index, SMA_SHORT),
     sma20  |-> computeSMA(closes, index, SMA_MID),
     sma50  |-> computeSMA(closes, index, SMA_LONG),
     rsi14  |-> computeRSI(gains, losses, index, RSI_PERIOD)]

\* what the callback at index pushes to gains
gainAt(closes, index) ==
    IF index = 0 THEN 0 ELSE Max(closes[index + 1] - closes[index], 0)

\* what the callback at index pushes to losses
lossAt(closes, index) ==
    IF index = 0 THEN 0 ELSE Max(-(closes[index + 1] - closes[index]), 0)

\* gains as the callback at index sees it after its push: the callbacks of
\* candles.map run in index order, so it holds the pushes of 0..index
gainsAt(closes, index) == [k \in 1..(index + 1) |-> gainAt(closes, k - 1)]

\* losses as the callback at index sees it after its push
lossesAt(closes, index) == [k \in 1..(index + 1) |-> lossAt(closes, k - 1)]

\* candles.map(callback)
addIndicators(cs) ==
    LET closes == [i \in 1..Len(cs) |-> cs[i].close]
    IN  [i \in 1..Len(cs) |->
            point(cs[i], closes, gainsAt(closes, i - 1), lossesAt(closes, i - 1), i - 1)]

----------------------------------------------------------------------------
\* analyzeNifty

\* Math.min(...values) over a non-empty sequence
mathMin(values) ==
    CHOOSE m \in {values[k] : k \in 1..Len(values)} :
        \A k \in 1..Len(values) : m <= values[k]

\* Math.max(...values) over a non-empty sequence
mathMax(values) ==
    CHOOSE m \in {values[k] : k \in 1..Len(values)} :
        \A k \in 1..Len(values) : m >= values[k]

\* Math.abs(num / den) < cnum / cden on doubles, cden > 0: a zero den makes
\* the quotient Infinity or NaN, and neither is below a finite number
absLess(num, den, cnum, cden) ==
    IF den = 0 THEN FALSE
    ELSE Abs(num) * cden < cnum * Abs(den)

\* Math.abs(num / den) > cnum / cden on doubles, cden > 0: a zero den makes
\* the quotient Infinity (above any finite number) unless num is 0 too (NaN)
absGreater(num, den, cnum, cden) ==
    IF den = 0 THEN num # 0
    ELSE Abs(num) * cden > cnum * Abs(den)

\* x ?? "phrase" inside a template literal
orPhrase(x, phrase) == IF x.kind = "number" THEN x ELSE [kind |-> phrase, v |-> 0]

\* x ?? 0 inside a template literal
orZero(x) == IF x.kind = "number" THEN x ELSE Num(0)

\* the reference taken 5 positions back, not 6
fiveDayReference_fiveBack(cs) ==
    IF Len(cs) - (MOMENTUM_BACK - 1) >= 0
    THEN cs[Len(cs) - (MOMENTUM_BACK - 1) + 1] ELSE cs[1]

\* candles[candles.length - 6] ?? candles[0]
fiveDayReference(cs) ==
    IF Len(cs) - MOMENTUM_BACK >= 0 THEN cs[Len(cs) - MOMENTUM_BACK + 1] ELSE cs[1]

\* the guard written as a presence test, sma20 !== null && sma50 !== null
computeBias_presence(lastClose, sma20, sma50) ==
    IF sma20.kind = "number" /\ sma50.kind = "number"
    THEN IF lastClose > sma20.v /\ sma20.v > sma50.v THEN "bullish"
         ELSE IF lastClose < sma20.v /\ sma20.v < sma50.v THEN "bearish"
         ELSE "neutral"
    ELSE "neutral"

computeBias(lastClose, sma20, sma50) ==
    IF truthy(sma20) /\ truthy(sma50)
    THEN IF lastClose > sma20.v /\ sma20.v > sma50.v THEN "bullish"
         ELSE IF lastClose < sma20.v /\ sma20.v < sma50.v THEN "bearish"
         ELSE "neutral"
    ELSE "neutral"

\* the two tests in the other order: "high" tried before "low"
computeConfidence_highFirst(lastClose, rsi14, sma20, sma50) ==
    IF rsi14.kind # "null" /\ sma20.kind # "null" /\ sma50.kind # "null"
    THEN IF \/ absGreater(lastClose - sma20.v, sma20.v, 2, 100)
            \/ rsi14.v > RSI_HIGH * Factor
            \/ rsi14.v < RSI_LOW * Factor
         THEN "high"
         ELSE IF /\ absLess(lastClose - sma20.v, sma20.v, 5, 1000)
                 /\ absLess(sma20.v - sma50.v, sma50.v, 3, 1000)
         THEN "low"
         ELSE "medium"
    ELSE "medium"

computeConfidence(lastClose, rsi14, sma20, sma50) ==
    IF rsi14.kind # "null" /\ sma20.kind # "null" /\ sma50.kind # "null"
    THEN \* distanceFromSma = Math.abs((lastClose - sma20) / sma20)
         IF /\ absLess(lastClose - sma20.v, sma20.v, 5, 1000)
            /\ absLess(sma20.v - sma50.v, sma50.v, 3, 1000)
         THEN "low"
         ELSE IF \/ absGreater(lastClose - sma20.v, sma20.v, 2, 100)
                 \/ rsi14.v > RSI_HIGH * Factor
                 \/ rsi14.v < RSI_LOW * Factor
         THEN "high"
         ELSE "medium"
    ELSE "medium"

computeHeadline(bias, rsi14) ==
    IF bias = "bullish"
    THEN IF rsi14.kind # "null" /\ rsi14.v > RSI_HIGH * Factor
         THEN "Uptrend extended but stretched"
         ELSE "Upside continuation favoured"
    ELSE IF bias = "bearish"
    THEN IF rsi14.kind # "null" /\ rsi14.v < RSI_LOW * Factor
         THEN "Downtrend oversold"
         ELSE "Downside pressure building"
    ELSE "Sideways consolidation likely"

\* the narrative template chosen and the values interpolated into it, in order
computeNarrative(bias, rsi14, sma20, momentumPct5Day, supportZone, resistanceZone) ==
    IF bias = "bullish"
    THEN IF rsi14.kind # "null" /\ rsi14.v > RSI_HIGH * Factor
         THEN [template |-> "Momentum stays positive",
               values |-> <<rsi14, orPhrase(sma20, "the 20-day SMA"),
                            orPhrase(supportZone, "recent support")>>]
         ELSE [template |-> "Price holds above",
               values |-> <<orZero(momentumPct5Day),
                            orPhrase(resistanceZone, "recent highs"),
                            orPhrase(supportZone, "nearby support")>>]
    ELSE IF bias = "bearish"
    THEN IF rsi14.kind # "null" /\ rsi14.v < RSI_LOW * Factor
         THEN [template |-> "Nifty is trading beneath",
               values |-> <<rsi14, orPhrase(supportZone, "support")>>]
         ELSE [template |-> "Lower highs persist",
               values |-> <<orZero(momentumPct5Day),
                            orPhrase(supportZone, "recent support"),
                            orPhrase(sma20, "the 20-day SMA")>>]
    ELSE [template |-> "Nifty appears range-bound", values |-> <<>>]

\* the body of analyzeNifty after the empty-input guard
analyzeNifty(cs) ==
    LET points == addIndicators(cs)
        lastPoint == points[Len(points)]
        hasPrevious == Len(points) > 1
        previousPoint == points[Len(points) - 1]
        lastClose == round(lastPoint.close, Unit)
        previousClose ==
            IF hasPrevious THEN Num(round(previousPoint.close, Unit)) ELSE Null
        dailyChangePct ==
            IF hasPrevious /\ previousPoint.close # 0
            THEN Num(round((lastPoint.close - previousPoint.close) * 100,
                           previousPoint.close))
            ELSE Null
        rsi14 == orNull(lastPoint.rsi14)
        sma20 == orNull(lastPoint.sma20)
        sma50 == orNull(lastPoint.sma50)
        reference == fiveDayReference(cs)
        momentumPct5Day ==
            Num(round((lastPoint.close - reference.close) * 100, reference.close))
        recentWindow == slice(cs, -RECENT_WINDOW, Len(cs))
        supportZone ==
            IF Len(recentWindow) > 0
            THEN Num(round(mathMin([k \in 1..Len(recentWindow) |-> recentWindow[k].low]),
                           Unit))
            ELSE Null
        resistanceZone ==
            IF Len(recentWindow) > 0
            THEN Num(round(mathMax([k \in 1..Len(recentWindow) |-> recentWindow[k].high]),
                           Unit))
            ELSE Null
        bias == computeBias(lastClose, sma20, sma50)
    IN  [lastClose        |-> Num(lastClose),
         previousClose    |-> previousClose,
         dailyChangePct   |-> dailyChangePct,
         bias             |-> bias,
         momentumPct5Day  |-> momentumPct5Day,
         rsi14            |-> rsi14,
         supportZone      |-> supportZone,
         resistanceZone   |-> resistanceZone,
         nextMoveHeadline |-> computeHeadline(bias, rsi14),
         narrative        |-> computeNarrative(bias, rsi14, sma20, momentumPct5Day,
                                               supportZone, resistanceZone),
         confidence       |-> computeConfidence(lastClose, rsi14, sma20, sma50)]

NoAnalysis == [bias |-> "none"]

----------------------------------------------------------------------------
\* The candle sequences a caller may hand over.  A sequence is one of a
\* family of daily series: a trend (slope per day), an alternating swing
\* (zig on the odd days), a move on the last day (jump), from a base price;
\* every price is positive and high >= max(open, close), low <= min(open,
\* close), as the data layer delivers them.  Dates are day numbers, ascending.

MaxShort == 7

MaxLen == 60

\* the lengths tried: every short one, those around each window size of the
\* code, and the longest
Lengths ==
    (0..MaxShort)
    \cup { n + d : n \in {SMA_SHORT, RSI_PERIOD, RECENT_WINDOW, SMA_MID, SMA_LONG},
                   d \in {-1, 0, 1} }
    \cup {MaxLen}

Bases == {1, 100000}

Slopes == {-300, -30, -1, 0, 1, 30, 100, 300}

Zigs == {0, 400, 5000}

Jumps == {0, 150}

closeAt(i, len, base, slope, zig, jump) ==
    base + slope * i + zig * (i % 2) + (IF i = len - 1 THEN jump ELSE 0)

wickAt(i) == ((i * 37 + 5) % 11) * 13

candleAt(i, len, base, slope, zig, jump) ==
    LET c == closeAt(i, len, base, slope, zig, jump)
        o == IF i = 0 THEN base ELSE closeAt(i - 1, len, base, slope, zig, jump)
        lo == Min(o, c)
    IN  [date   |-> i + 1,
         open   |-> o,
         high   |-> Max(o, c) + wickAt(i),
         low    |-> IF lo > wickAt(i) THEN lo - wickAt(i) ELSE lo,
         close  |-> c,
         volume |-> IF i % 4 = 3 THEN Undefined ELSE Num(1000 + i)]

series(len, base, slope, zig, jump) ==
    [k \in 1..len |-> candleAt(k - 1, len, base, slope, zig, jump)]

Shapes ==
    { p \in [len : Lengths, base : Bases, slope : Slopes, zig : Zigs, jump : Jumps] :
        \A i \in 0..(p.len - 1) : closeAt(i, p.len, p.base, p.slope, p.zig, p.jump) > 0 }

\* short falling series whose percentage changes are exact in binary: from
\* 32.0000 down by 1.0000 a day (31/32 - 1 = -0.03125, so -3.125 %)
DyadicShapes ==
    [len : 1..MaxShort, base : {320000}, slope : {-10000}, zig : {0}, jump : {0}]

Inputs ==
    { series(p.len, p.base, p.slope, p.zig, p.jump) : p \in Shapes \cup DyadicShapes }

----------------------------------------------------------------------------
\* The client: it holds one candle sequence and calls the library on it

Init ==
    /\ candles \in Inputs
    /\ enriched = <<>>
    /\ indicated = FALSE
    /\ outcome = "pending"
    /\ analysis = NoAnalysis
    /\ thrown = ""

\* enriched = addIndicators(candles)
CallAddIndicators ==
    /\ ~indicated
    /\ enriched' = addIndicators(candles)
    /\ indicated' = TRUE
    /\ UNCHANGED <<candles, outcome, analysis, thrown>>

\* analyzeNifty(candles) with candles.length === 0: throw new Error(...)
AnalyzeNiftyThrows ==
    /\ outcome = "pending"
    /\ Len(candles) = 0
    /\ outcome' = "threw"
    /\ thrown' = "No candles provided for analysis"
    /\ UNCHANGED <<candles, enriched, indicated, analysis>>

\* analyzeNifty(candles) past the guard: the record is returned
AnalyzeNiftyReturns ==
    /\ outcome = "pending"
    /\ Len(candles) # 0
    /\ outcome' = "returned"
    /\ analysis' = analyzeNifty(candles)
    /\ UNCHANGED <<candles, enriched, indicated, thrown>>

Next == CallAddIndicators \/ AnalyzeNiftyThrows \/ AnalyzeNiftyReturns

Spec == Init /\ [][Next]_vars

----------------------------------------------------------------------------
\* Reference quantities the properties are stated with, taken from the
\* candles alone

\* value (a count of 1/Factor) is num/den rounded to 2 decimals: it lies within
\* half a hundredth of num/den (den > 0)
RoundedTo2(value, num, den) ==
    Abs(2 * value * den - 2 * Factor * num) <= den

\* the sum of f[k] over k in lo..hi
RECURSIVE Sigma(_, _, _)
Sigma(f, lo, hi) ==
    IF lo > hi THEN 0
    ELSE IF lo = hi THEN f[lo]
    ELSE Sigma(f, lo, (lo + hi) \div 2) + Sigma(f, (lo + hi) \div 2 + 1, hi)

\* the sum of the closes at the 0-based indices lo..hi of cs
CloseSum(cs, lo, hi) == Sigma([k \in lo..hi |-> cs[k + 1].close], lo, hi)

\* the sum of the day-over-day rises of the close at the 0-based indices lo..hi
GainSum(cs, lo, hi) ==
    Sigma([k \in lo..hi |-> IF k > 0 /\ cs[k + 1].close > cs[k].close
                            THEN cs[k + 1].close - cs[k].close ELSE 0], lo, hi)

\* the sum of the day-over-day falls of the close at the 0-based indices lo..hi
LossSum(cs, lo, hi) ==
    Sigma([k \in lo..hi |-> IF k > 0 /\ cs[k + 1].close < cs[k].close
                            THEN cs[k].close - cs[k + 1].close ELSE 0], lo, hi)

AllRising(cs) == \A k \in 2..Len(cs) : cs[k].close > cs[k - 1].close

AllFalling(cs) == \A k \in 2..Len(cs) : cs[k].close < cs[k - 1].close

Optional(x) == x.kind = "number" \/ x = Undefined

----------------------------------------------------------------------------
\* C1: addIndicators returns a sequence of the length of its input whose
\* point at index i carries the date, open, high, low, close and volume of
\* the input candle at index i; the empty input gives the empty output.
C1_SameCandles ==
    indicated =>
        /\ Len(enriched) = Len(candles)
        /\ (candles = <<>> => enriched = <<>>)
        /\ \A k \in 1..Len(candles) :
              /\ enriched[k].date = candles[k].date
              /\ enriched[k].open = candles[k].open
              /\ enriched[k].high = candles[k].high
              /\ enriched[k].low = candles[k].low
              /\ enriched[k].close = candles[k].close
              /\ enriched[k].volume = candles[k].volume

C1_Witness ==
    /\ indicated
    /\ Len(enriched) = MaxLen
    /\ \E k \in 1..Len(candles) : candles[k].volume.kind = "number"
    /\ \E k \in 1..Len(candles) : candles[k].volume = Undefined

\* C3: for n in {10, 20, 50} the SMA(n) of the point at index i is present
\* if and only if i + 1 >= n (absent is undefined, never a number), and when
\* present it is the mean of the closes at i-n+1..i rounded to 2 decimals.
SmaAsClaimed(cs, sma, i, n) ==
    /\ Optional(sma)
    /\ sma.kind = "number" <=> i + 1 >= n
    /\ sma.kind = "number" =>
          RoundedTo2(sma.v, CloseSum(cs, i - n + 1, i), n * Unit)

C3_RollingMean ==
    indicated =>
        \A i \in 0..(Len(enriched) - 1) :
            /\ SmaAsClaimed(candles, enriched[i + 1].sma10, i, SMA_SHORT)
            /\ SmaAsClaimed(candles, enriched[i + 1].sma20, i, SMA_MID)
            /\ SmaAsClaimed(candles, enriched[i + 1].sma50, i, SMA_LONG)

C3_Witness ==
    /\ indicated
    /\ Len(enriched) > SMA_LONG
    /\ enriched[SMA_LONG - 1].sma50 = Undefined
    /\ enriched[SMA_LONG].sma50.kind = "number"
    /\ enriched[SMA_LONG].sma50.v # enriched[SMA_LONG].sma20.v
    /\ enriched[SMA_LONG].sma20.v # enriched[SMA_LONG].sma10.v
    /\ enriched[SMA_LONG].sma50.v * (Unit \div Factor) # candles[SMA_LONG].close

\* C4: rsi14 of the point at index i is present if and only if i >= 14; when
\* present, with G and L the sums of the 14 gains and of the 14 losses ending
\* at i, it is 100 if L = 0, else 0 if G = 0, else 100 - 100/(1 + G/L)
\* (= 100 G/(G+L)) rounded to 2 decimals; so an all-rising series has 100 and
\* an all-falling series has 0 at every index >= 14.
RsiAsClaimed(cs, rsi, i) ==
    LET G == GainSum(cs, i - RSI_PERIOD + 1, i)
        L == LossSum(cs, i - RSI_PERIOD + 1, i)
    IN  /\ Optional(rsi)
        /\ rsi.kind = "number" <=> i >= RSI_PERIOD
        /\ rsi.kind = "number" =>
              IF L = 0 THEN rsi.v = 100 * Factor
              ELSE IF G = 0 THEN rsi.v = 0
              ELSE RoundedTo2(rsi.v, 100 * G, G + L)

C4_Rsi ==
    indicated =>
        /\ \A i \in 0..(Len(enriched) - 1) :
              RsiAsClaimed(candles, enriched[i + 1].rsi14, i)
        /\ AllRising(candles) =>
              \A i \in RSI_PERIOD..(Len(enriched) - 1) :
                  enriched[i + 1].rsi14 = Num(100 * Factor)
        /\ AllFalling(candles) =>
              \A i \in RSI_PERIOD..(Len(enriched) - 1) :
                  enriched[i + 1].rsi14 = Num(0)

C4_Witness ==
    /\ indicated
    /\ Len(enriched) > RSI_PERIOD + 1
    /\ enriched[RSI_PERIOD].rsi14 = Undefined
    /\ enriched[RSI_PERIOD + 1].rsi14.kind = "number"
    /\ enriched[RSI_PERIOD + 1].rsi14.v > 0
    /\ enriched[RSI_PERIOD + 1].rsi14.v < 100 * Factor
    /\ enriched[RSI_PERIOD + 1].rsi14.v # enriched[RSI_PERIOD + 2].rsi14.v

\* a field of the analysis record that is a number or the explicit null
Nullable(x) == x.kind = "number" \/ x = Null

AnalysisFields ==
    {"lastClose", "previousClose", "dailyChangePct", "bias", "momentumPct5Day",
     "rsi14", "supportZone", "resistanceZone", "nextMoveHeadline", "narrative",
     "confidence"}

Headlines ==
    {"Sideways consolidation likely", "Uptrend extended but stretched",
     "Upside continuation favoured", "Downtrend oversold",
     "Downside pressure building"}

\* the last point of the enriched sequence
LastPoint == enriched[Len(enriched)]

\* both calls have returned: the record and the enriched points are at hand
BothReturned == indicated /\ outcome = "returned"

\* C2: analyzeNifty fails with the "no data" error if and only if the candle
\* sequence is empty; for every non-empty sequence it returns a complete
\* record (every field set, an absent value being the explicit null) and
\* raises no error.
C2_NoDataIffEmpty ==
    /\ outcome \in {"pending", "threw", "returned"}
    /\ outcome = "threw" =>
          Len(candles) = 0 /\ thrown = "No candles provided for analysis"
    /\ outcome = "returned" =>
          /\ Len(candles) > 0
          /\ thrown = ""
          /\ DOMAIN analysis = AnalysisFields
          /\ analysis.lastClose.kind = "number"
          /\ Nullable(analysis.previousClose)
          /\ Nullable(analysis.dailyChangePct)
          /\ Nullable(analysis.momentumPct5Day)
          /\ Nullable(analysis.rsi14)
          /\ Nullable(analysis.supportZone)
          /\ Nullable(analysis.resistanceZone)
          /\ analysis.bias \in {"bullish", "bearish", "neutral"}
          /\ analysis.confidence \in {"high", "medium", "low"}
          /\ analysis.nextMoveHeadline \in Headlines

C2_Witness ==
    /\ outcome = "returned"
    /\ Len(candles) = RSI_PERIOD
    /\ analysis.rsi14 = Null
    /\ analysis.previousClose.kind = "number"

\* C5: the bias is neutral unless sma20 and sma50 of the last point are both
\* present and non-zero; then it is bullish iff lastClose > sma20 > sma50,
\* bearish iff lastClose < sma20 < sma50, neutral otherwise.  An SMA of
\* exactly 0 counts as absent.
C5_Bias ==
    BothReturned =>
        LET s20 == LastPoint.sma20
            s50 == LastPoint.sma50
            lc == analysis.lastClose.v
            usable == /\ s20.kind = "number" /\ s20.v # 0
                      /\ s50.kind = "number" /\ s50.v # 0
        IN  /\ ~usable => analysis.bias = "neutral"
            /\ usable =>
                  /\ analysis.bias = "bullish" <=> (lc > s20.v /\ s20.v > s50.v)
                  /\ analysis.bias = "bearish" <=> (lc < s20.v /\ s20.v < s50.v)
                  /\ analysis.bias \in {"bullish", "bearish", "neutral"}

\* an SMA present and equal to 0 where the comparisons alone would say bullish
C5_Witness ==
    /\ BothReturned
    /\ LastPoint.sma50 = Num(0)
    /\ LastPoint.sma20.kind = "number"
    /\ LastPoint.sma20.v > 0
    /\ analysis.lastClose.v > LastPoint.sma20.v
    /\ analysis.bias = "neutral"

\* C6: the confidence is medium whenever rsi14, sma20 or sma50 is absent.
\* With all three present and d = |lastClose - sma20| / sma20: low if
\* d < 0.005 and |sma20 - sma50| / sma50 < 0.003; otherwise high if d > 0.02 or
\* rsi14 > 68 or rsi14 < 32; otherwise medium.  Low is tested first and wins
\* when the high condition holds too.  (A quotient by 0 is the double the
\* division gives: below no threshold, and above one unless it is 0/0.)
C6_Confidence ==
    BothReturned =>
        LET rsi == LastPoint.rsi14
            s20 == LastPoint.sma20
            s50 == LastPoint.sma50
            lc == analysis.lastClose.v
            dBelow == s20.v # 0 /\ 1000 * Abs(lc - s20.v) < 5 * Abs(s20.v)
            dAbove == IF s20.v = 0 THEN lc # 0
                      ELSE 100 * Abs(lc - s20.v) > 2 * Abs(s20.v)
            converged == s50.v # 0 /\ 1000 * Abs(s20.v - s50.v) < 3 * Abs(s50.v)
            lowCase == dBelow /\ converged
            highCase == dAbove \/ rsi.v > 68 * Factor \/ rsi.v < 32 * Factor
        IN  IF rsi.kind # "number" \/ s20.kind # "number" \/ s50.kind # "number"
            THEN analysis.confidence = "medium"
            ELSE /\ lowCase => analysis.confidence = "low"
                 /\ (~lowCase /\ highCase) => analysis.confidence = "high"
                 /\ (~lowCase /\ ~highCase) => analysis.confidence = "medium"

\* an extreme RSI with the price near converged averages: low wins
C6_Witness ==
    /\ BothReturned
    /\ LastPoint.rsi14.kind = "number"
    /\ LastPoint.rsi14.v > 68 * Factor
    /\ LastPoint.sma50.kind = "number"
    /\ analysis.lastClose.v # LastPoint.sma20.v
    /\ analysis.confidence = "low"

\* the rule table: the headline as a function of bias and rsi14
HeadlineTable ==
    outcome = "returned" =>
        LET rsi == analysis.rsi14
            headline == analysis.nextMoveHeadline
        IN  /\ analysis.bias = "neutral" => headline = "Sideways consolidation likely"
            /\ analysis.bias = "bullish" =>
                  IF rsi.kind = "number" /\ rsi.v > 68 * Factor
                  THEN headline = "Uptrend extended but stretched"
                  ELSE headline = "Upside continuation favoured"
            /\ analysis.bias = "bearish" =>
                  IF rsi.kind = "number" /\ rsi.v < 32 * Factor
                  THEN headline = "Downtrend oversold"
                  ELSE headline = "Downside pressure building"

\* the worked case: 60 candles with increasing closes, RSI > 68,
\* sma20 > sma50 and the price above both
StretchedUptrend ==
    /\ BothReturned
    /\ Len(candles) = 60
    /\ AllRising(candles)
    /\ LastPoint.rsi14.kind = "number" /\ LastPoint.rsi14.v > 68 * Factor
    /\ LastPoint.sma20.kind = "number" /\ LastPoint.sma50.kind = "number"
    /\ LastPoint.sma20.v > LastPoint.sma50.v
    /\ analysis.lastClose.v > LastPoint.sma20.v
    /\ analysis.lastClose.v > LastPoint.sma50.v

\* C7: the headline follows the rule table from bias and rsi14; in
\* particular a 60-candle increasing series with RSI > 68, sma20 > sma50 and
\* the price above both gives bias bullish and "Uptrend extended but
\* stretched".
C7_Headline ==
    /\ HeadlineTable
    /\ StretchedUptrend =>
          /\ analysis.bias = "bullish"
          /\ analysis.nextMoveHeadline = "Uptrend extended but stretched"

\* C8 as stated: a single candle gives previousClose and dailyChangePct
\* absent, bias neutral, confidence medium, supportZone equal to the candle's
\* low and resistanceZone equal to the candle's high.
C8_SingleCandleExact ==
    (outcome = "returned" /\ Len(candles) = 1) =>
        /\ analysis.previousClose = Null
        /\ analysis.dailyChangePct = Null
        /\ analysis.bias = "neutral"
        /\ analysis.confidence = "medium"
        /\ analysis.supportZone.kind = "number"
        /\ analysis.supportZone.v * Unit = candles[1].low * Factor
        /\ analysis.resistanceZone.kind = "number"
        /\ analysis.resistanceZone.v * Unit = candles[1].high * Factor

\* C8 amended: a single candle gives previousClose and dailyChangePct absent,
\* bias neutral, confidence medium, supportZone equal to the candle's low
\* rounded to 2 decimals and resistanceZone equal to the candle's high rounded
\* to 2 decimals.
C8_SingleCandleRounded ==
    (outcome = "returned" /\ Len(candles) = 1) =>
        /\ analysis.previousClose = Null
        /\ analysis.dailyChangePct = Null
        /\ analysis.bias = "neutral"
        /\ analysis.confidence = "medium"
        /\ analysis.supportZone.kind = "number"
        /\ RoundedTo2(analysis.supportZone.v, candles[1].low, Unit)
        /\ analysis.resistanceZone.kind = "number"
        /\ RoundedTo2(analysis.resistanceZone.v, candles[1].high, Unit)

C8_Witness ==
    /\ outcome = "returned"
    /\ Len(candles) = 1
    /\ candles[1].low > Unit
    /\ analysis.supportZone.v * Unit # candles[1].low * Factor
    /\ analysis.resistanceZone.v * Unit # candles[1].high * Factor
    /\ analysis.resistanceZone.v > analysis.supportZone.v

\* C9: for a non-empty sequence of length L, momentumPct5Day is present and
\* is ((last.close - ref.close) / ref.close) * 100 rounded to 2 decimals, ref
\* being the candle at index L-6 when L >= 6 and the first candle when L < 6;
\* for L = 1 it is 0.
C9_Momentum ==
    outcome = "returned" =>
        LET L == Len(candles)
            ref == IF L >= 6 THEN candles[L - 6 + 1] ELSE candles[1]
            last == candles[L]
        IN  /\ analysis.momentumPct5Day.kind = "number"
            /\ RoundedTo2(analysis.momentumPct5Day.v,
                          100 * (last.close - ref.close), ref.close)
            /\ L = 1 => analysis.momentumPct5Day = Num(0)

C9_Witness ==
    /\ outcome = "returned"
    /\ Len(candles) > 6
    /\ candles[Len(candles) - 5].close # candles[1].close
    /\ candles[Len(candles) - 5].close # candles[Len(candles) - 4].close
    /\ analysis.momentumPct5Day.kind = "number"
    /\ analysis.momentumPct5Day.v < 0

\* cs with every candle after the 0-based index i moved: other prices from
\* there on
TailChanged(cs, i) ==
    [k \in 1..Len(cs) |->
        IF k - 1 <= i THEN cs[k]
        ELSE [cs[k] EXCEPT !.close = @ + 777 * k, !.high = @ + 777 * k]]

Indicators(pt) == <<pt.sma10, pt.sma20, pt.sma50, pt.rsi14>>

\* C10: addIndicators is causal: applied to the first k candles it returns
\* the first k points of what it returns on the whole sequence, for every k;
\* and changing the candles after index i changes no sma10, sma20, sma50 or
\* rsi14 of the points up to i.
C10_Causal ==
    indicated =>
        /\ \A k \in 0..Len(candles) :
              addIndicators(SubSeq(candles, 1, k)) = SubSeq(enriched, 1, k)
        /\ \A i \in 0..(Len(candles) - 1) :
              LET other == addIndicators(TailChanged(candles, i))
              IN  \A j \in 0..i : Indicators(other[j + 1]) = Indicators(enriched[j + 1])

\* a long sequence whose later points differ from the earlier ones in every
\* indicator, and whose changed tail does change the later indicators
C10_Witness ==
    /\ indicated
    /\ Len(candles) > SMA_LONG
    /\ enriched[Len(enriched)].sma50.kind = "number"
    /\ enriched[Len(enriched)].sma50 # enriched[Len(enriched) - 1].sma50
    /\ enriched[Len(enriched)].sma10 # enriched[Len(enriched) - 1].sma10
    /\ enriched[Len(enriched)].rsi14 # enriched[Len(enriched) - 1].rsi14
    /\ Indicators(addIndicators(TailChanged(candles, SMA_LONG - 1))[Len(candles)])
          # Indicators(enriched[Len(enriched)])

\* value (a count of 1/Factor) is num/den times 100, rounded to the nearest
\* integer with a tie going up, toward +infinity (den > 0)
TieUp(value, num, den) ==
    LET rest == 2 * Factor * num - 2 * value * den
    IN  -den <= rest /\ rest < den

\* value is num/den times 100, rounded to the nearest integer with a tie
\* going away from zero (den > 0)
TieAway(value, num, den) ==
    LET rest == 2 * Factor * num - 2 * value * den
    IN  IF num >= 0 THEN -den <= rest /\ rest < den
        ELSE -den < rest /\ rest <= den

\* the 0-based indices of the trailing window of 15 candles
RecentIndices == { k \in 0..(Len(candles) - 1) : k >= Len(candles) - 15 }

\* every 2-decimal value of the enriched points and of the record is its
\* exact value rounded by Rule (TieUp or TieAway)
EveryRounded(Rule(_, _, _)) ==
    LET L == Len(candles)
        last == candles[L]
        ref == IF L >= 6 THEN candles[L - 5] ELSE candles[1]
    IN  /\ \A i \in 0..(L - 1) :
              LET pt == enriched[i + 1]
                  G == GainSum(candles, i - RSI_PERIOD + 1, i)
                  D == LossSum(candles, i - RSI_PERIOD + 1, i)
              IN  /\ pt.sma10.kind = "number" =>
                        Rule(pt.sma10.v, CloseSum(candles, i - 9, i), 10 * Unit)
                  /\ pt.sma20.kind = "number" =>
                        Rule(pt.sma20.v, CloseSum(candles, i - 19, i), 20 * Unit)
                  /\ pt.sma50.kind = "number" =>
                        Rule(pt.sma50.v, CloseSum(candles, i - 49, i), 50 * Unit)
                  /\ (pt.rsi14.kind = "number" /\ G # 0 /\ D # 0) =>
                        Rule(pt.rsi14.v, 100 * G, G + D)
        /\ Rule(analysis.lastClose.v, last.close, Unit)
        /\ L > 1 =>
              /\ Rule(analysis.previousClose.v, candles[L - 1].close, Unit)
              /\ Rule(analysis.dailyChangePct.v,
                      100 * (last.close - candles[L - 1].close), candles[L - 1].close)
        /\ Rule(analysis.momentumPct5Day.v, 100 * (last.close - ref.close), ref.close)
        /\ \E k \in RecentIndices :
              /\ \A j \in RecentIndices : candles[k + 1].low <= candles[j + 1].low
              /\ Rule(analysis.supportZone.v, candles[k + 1].low, Unit)
        /\ \E k \in RecentIndices :
              /\ \A j \in RecentIndices : candles[k + 1].high >= candles[j + 1].high
              /\ Rule(analysis.resistanceZone.v, candles[k + 1].high, Unit)

\* C11 as stated: every 2-decimal rounding in the core (SMA, RSI, lastClose,
\* previousClose, dailyChangePct, momentumPct5Day, support, resistance) is
\* value * 100 rounded to the nearest integer, a tie going away from zero,
\* divided by 100, for positive and for negative values.
C11_RoundHalfAway == BothReturned => EveryRounded(TieAway)

\* C11 amended: every 2-decimal rounding in the core is value * 100 rounded to
\* the nearest integer, a tie going up (toward +infinity, as Math.round does),
\* divided by 100; a negative tie so rounds toward zero.
C11_RoundHalfUp == BothReturned => EveryRounded(TieUp)

\* a negative percentage on an exact tie, rounded toward zero
C11_Witness ==
    /\ BothReturned
    /\ Len(candles) > 1
    /\ analysis.dailyChangePct.kind = "number"
    /\ analysis.dailyChangePct.v < 0
    /\ 2 * Factor * 100 * (candles[Len(candles)].close - candles[Len(candles) - 1].close)
          = (2 * analysis.dailyChangePct.v - 1) * candles[Len(candles) - 1].close

\* C12: whenever the bias is bullish or bearish, sma20, sma50 and rsi14 of
\* the last point are all present (the input has at least 50 candles), so the
\* narrative carries numbers only: no fallback phrase, and the momentum itself
\* where 0 would stand in for it.  Equivalently, an input of fewer than 50
\* candles gives bias neutral, confidence medium and the headline "Sideways
\* consolidation likely".
C12_TrendNeedsFifty ==
    BothReturned =>
        /\ analysis.bias \in {"bullish", "bearish"} =>
              /\ Len(candles) >= 50
              /\ LastPoint.sma20.kind = "number"
              /\ LastPoint.sma50.kind = "number"
              /\ LastPoint.rsi14.kind = "number"
              /\ analysis.rsi14.kind = "number"
              /\ \A k \in 1..Len(analysis.narrative.values) :
                    analysis.narrative.values[k].kind = "number"
              /\ analysis.narrative.template \in {"Price holds above", "Lower highs persist"} =>
                    analysis.narrative.values[1] = analysis.momentumPct5Day
        /\ Len(candles) < 50 =>
              /\ analysis.bias = "neutral"
              /\ analysis.confidence = "medium"
              /\ analysis.nextMoveHeadline = "Sideways consolidation likely"

\* a trend called on exactly 50 candles, its narrative citing the momentum
C12_Witness ==
    /\ BothReturned
    /\ Len(candles) = 50
    /\ analysis.bias = "bearish"
    /\ analysis.narrative.template = "Lower highs persist"
    /\ LastPoint.sma50.kind = "number"
    /\ analysis.narrative.values[1] = analysis.momentumPct5Day
    /\ analysis.momentumPct5Day.kind = "number"

====
